---- MODULE Spec2Model ----
(***************************************************************************)
(* Model of paper_replicate.py: the reconciliation of a raw table of text  *)
(* snippets with a coded table of human labels, the sequential labelling   *)
(* of the merged rows by an external oracle, and the scoring.              *)
(*                                                                         *)
(* Strings are sequences of one-character strings.  A cell of a table is a *)
(* record: None, NaN, a Python int, a Python float (sign, whole part and   *)
(* decimal fraction digits) or a str.                                      *)
(***************************************************************************)
EXTENDS Integers, Sequences, FiniteSets, TLC

VARIABLES
    pc,          \* position of the run (or of the function under study)
    probe,       \* argument handed to the function under study
    result,      \* sequence of the values the function under study returned
    args,        \* parsed command line: id_col, text_col, construct_col, label_col
    raw_df,      \* the raw table (main: raw_df)
    coded_df,    \* the coded table (main: coded_df)
    coded_long,  \* long-form label table (main: coded_long)
    merged,      \* merged table (main: merged)
    merge_keys,  \* main: merge_keys
    warned,      \* set of warnings emitted so far
    preds,       \* main: preds, one label per processed merged row
    oracle,      \* the external oracle: calls issued, call in flight
    artifacts,   \* names of the output files written so far
    metrics,     \* overall_kappa and the per-construct rows
    err          \* the exception that ended the run, or "none"

vars == <<pc, probe, result, args, raw_df, coded_df, coded_long, merged,
          merge_keys, warned, preds, oracle, artifacts, metrics, err>>

(***************************************************************************)
(* Bounds of the model.                                                    *)
(***************************************************************************)
MaxLen == 5
MaxIdLen == 4

(***************************************************************************)
(* Characters and strings.                                                 *)
(***************************************************************************)
Digits == <<"0", "1", "2", "3", "4", "5", "6", "7", "8", "9">>

DigitSet == {Digits[i] : i \in 1..10}

UpperLetters == {"A", "B", "C", "H", "I"}

LowerLetters == {"a", "b", "c", "d", "e", "f", "h", "i", "k", "l", "m", "n",
                 "o", "p", "q", "r", "s", "t", "u", "x", "y"}

\* str.lower() on one character
LowerChar(c) ==
    CASE c = "A" -> "a"
      [] c = "B" -> "b"
      [] c = "C" -> "c"
      [] c = "H" -> "h"
      [] c = "I" -> "i"
      [] OTHER -> c

\* the characters the regular expression class \s matches
IsSpace(c) == c \in {" ", "\t", "\n", "\r"}

\* the characters the regular expression class [a-z0-9 ] matches
IsKept(c) == c \in LowerLetters \cup DigitSet \cup {" "}

\* the characters the regular expression class \w matches
IsWord(c) == c \in LowerLetters \cup UpperLetters \cup DigitSet \cup {"_"}

RECURSIVE LStrip(_)
LStrip(s) == IF s # <<>> /\ IsSpace(Head(s)) THEN LStrip(Tail(s)) ELSE s

RECURSIVE RStrip(_)
RStrip(s) ==
    IF s # <<>> /\ IsSpace(s[Len(s)]) THEN RStrip(SubSeq(s, 1, Len(s) - 1)) ELSE s

\* str.strip()
Strip(s) == RStrip(LStrip(s))

\* str.lower()
Lower(s) == [i \in 1..Len(s) |-> LowerChar(s[i])]

\* str.replace(c, by) for a one-character c
RECURSIVE Replace(_, _, _)
Replace(s, c, by) ==
    IF s = <<>> THEN <<>>
    ELSE (IF Head(s) = c THEN by ELSE <<Head(s)>>) \o Replace(Tail(s), c, by)

\* re.sub(r"\s+", " ", s)
RECURSIVE CollapseSpace(_)
CollapseSpace(s) ==
    IF s = <<>> THEN <<>>
    ELSE IF IsSpace(Head(s)) THEN <<" ">> \o CollapseSpace(LStrip(s))
    ELSE <<Head(s)>> \o CollapseSpace(Tail(s))

\* re.sub(r"[^a-z0-9 ]", "", s)
DropPunct(s) == SelectSeq(s, IsKept)

(***************************************************************************)
(* Cells.                                                                  *)
(***************************************************************************)
NoneV == [k |-> "none", neg |-> FALSE, whole |-> 0, frac |-> <<>>, s |-> <<>>]

NaNV == [k |-> "nan", neg |-> FALSE, whole |-> 0, frac |-> <<>>, s |-> <<>>]

IntV(n) ==
    [k |-> "int", neg |-> n < 0, whole |-> IF n < 0 THEN -n ELSE n,
     frac |-> <<>>, s |-> <<>>]

FloatV(neg, whole, frac) ==
    [k |-> "float", neg |-> neg, whole |-> whole, frac |-> frac, s |-> <<>>]

StrV(s) == [k |-> "str", neg |-> FALSE, whole |-> 0, frac |-> <<>>, s |-> s]

\* pd.isna(v)
IsNa(v) == v.k \in {"none", "nan"}

\* str(n) for a natural number n
RECURSIVE DecStr(_)
DecStr(n) ==
    IF n < 10 THEN <<Digits[n + 1]>> ELSE DecStr(n \div 10) \o <<Digits[(n % 10) + 1]>>

\* the digits 0..9 of a fraction as characters
FracStr(frac) == [i \in 1..Len(frac) |-> Digits[frac[i] + 1]]

\* str(v)
PyStr(v) ==
    CASE v.k = "none" -> <<"N", "o", "n", "e">>
      [] v.k = "nan" -> <<"n", "a", "n">>
      [] v.k = "int" -> (IF v.neg THEN <<"-">> ELSE <<>>) \o DecStr(v.whole)
      [] v.k = "float" ->
            (IF v.neg THEN <<"-">> ELSE <<>>) \o DecStr(v.whole) \o <<".">>
            \o (IF v.frac = <<>> THEN <<"0">> ELSE FracStr(v.frac))
      [] OTHER -> v.s

(***************************************************************************)
(* canonical                                                               *)
(***************************************************************************)
canonical(v) ==
    IF v.k = "none" THEN <<>>
    ELSE LET s1 == Lower(Strip(PyStr(v)))
             s2 == Replace(s1, "&", <<" ", "a", "n", "d", " ">>)
             s3 == Replace(s2, "-", <<" ">>)
             s4 == CollapseSpace(s3)
             s5 == DropPunct(s4)
         IN  Strip(s5)

(***************************************************************************)
(* float(v), round(f) and _normalize_id_value                              *)
(***************************************************************************)
ID_INT_TOL_DIGITS == 9   \* ID_INT_TOL = 1e-9 = 10^-9

AllDigits(s) == \A i \in 1..Len(s) : s[i] \in DigitSet

AllZeros(s) == \A i \in 1..Len(s) : s[i] = "0"

\* position of the first "." of s, or 0
FirstDot(s) ==
    IF \E i \in 1..Len(s) : s[i] = "."
    THEN CHOOSE i \in 1..Len(s) : s[i] = "." /\ \A j \in 1..(i - 1) : s[j] # "."
    ELSE 0

DigitValue(c) == CHOOSE d \in 0..9 : Digits[d + 1] = c

\* int(s) for a string of digits ("" gives 0)
RECURSIVE DigitsToNat(_)
DigitsToNat(s) ==
    IF s = <<>> THEN 0
    ELSE 10 * DigitsToNat(SubSeq(s, 1, Len(s) - 1)) + DigitValue(s[Len(s)])

NotAFloat == [ok |-> FALSE, finite |-> FALSE, neg |-> FALSE, whole |-> 0, frac |-> <<>>]

\* float(s) for a str: surrounding whitespace, a sign, then "nan", "inf",
\* "infinity" or a decimal numeral (digits with at most one "." and at least
\* one digit).  Exponents and digit-group underscores are outside the
\* alphabets the model draws strings from.
ParseFloat(s) ==
    LET t == Strip(s)
        signed == t # <<>> /\ Head(t) \in {"+", "-"}
        neg == signed /\ Head(t) = "-"
        body == IF signed THEN Tail(t) ELSE t
        dot == FirstDot(body)
        ip == IF dot = 0 THEN body ELSE SubSeq(body, 1, dot - 1)
        fp == IF dot = 0 THEN <<>> ELSE SubSeq(body, dot + 1, Len(body))
    IN  IF Lower(body) \in {<<"n", "a", "n">>, <<"i", "n", "f">>,
                            <<"i", "n", "f", "i", "n", "i", "t", "y">>}
        THEN [ok |-> TRUE, finite |-> FALSE, neg |-> neg, whole |-> 0, frac |-> <<>>]
        ELSE IF AllDigits(ip) /\ AllDigits(fp) /\ Len(ip) + Len(fp) >= 1
        THEN [ok |-> TRUE, finite |-> TRUE, neg |-> neg, whole |-> DigitsToNat(ip),
              frac |-> [i \in 1..Len(fp) |-> DigitValue(fp[i])]]
        ELSE NotAFloat

\* float(v): raises (ok = FALSE) for a str that is no numeral
ToFloat(v) ==
    CASE v.k \in {"int", "float"} ->
            [ok |-> TRUE, finite |-> TRUE, neg |-> v.neg, whole |-> v.whole, frac |-> v.frac]
      [] v.k = "str" -> ParseFloat(v.s)
      [] OTHER -> NotAFloat

\* the fraction 0.d1d2... compared with one half: -1 below, 0 equal, 1 above
CmpHalf(frac) ==
    IF frac = <<>> \/ frac[1] < 5 THEN -1
    ELSE IF frac[1] > 5 \/ \E i \in 2..Len(frac) : frac[i] # 0 THEN 1
    ELSE 0

\* |round(f)|: Python rounds half to even
RoundAbs(f) ==
    LET c == CmpHalf(f.frac)
    IN  IF c > 0 \/ (c = 0 /\ f.whole % 2 = 1) THEN f.whole + 1 ELSE f.whole

\* abs(f - r) < ID_INT_TOL for r = RoundAbs(f), in exact arithmetic
NearInt(f) ==
    LET n == Len(f.frac)
        m == IF n < ID_INT_TOL_DIGITS THEN n ELSE ID_INT_TOL_DIGITS
    IN  IF RoundAbs(f) = f.whole
        THEN \A i \in 1..m : f.frac[i] = 0
        ELSE /\ n > ID_INT_TOL_DIGITS
             /\ \A i \in 1..ID_INT_TOL_DIGITS : f.frac[i] = 9
             /\ \E i \in (ID_INT_TOL_DIGITS + 1)..n : f.frac[i] # 0

\* str(int(r))
IntStr(neg, n) == (IF neg /\ n > 0 THEN <<"-">> ELSE <<>>) \o DecStr(n)

\* re.fullmatch(r"\d+\.0+", s)
MatchIntDotZeros(s) ==
    LET dot == FirstDot(s)
    IN  /\ dot > 1
        /\ dot < Len(s)
        /\ AllDigits(SubSeq(s, 1, dot - 1))
        /\ AllZeros(SubSeq(s, dot + 1, Len(s)))

\* re.fullmatch(r"\d+(\.0+)?", s)
MatchIntOptZeros(s) == (s # <<>> /\ AllDigits(s)) \/ MatchIntDotZeros(s)

\* s.split(".")[0]
BeforeDot(s) == IF FirstDot(s) = 0 THEN s ELSE SubSeq(s, 1, FirstDot(s) - 1)

\* mutation: the numeric branch is skipped, every value goes the string way
normalize_id_value_nofloat(v) ==
    IF IsNa(v) THEN NaNV
    ELSE LET s == Strip(PyStr(v))
         IN  StrV(IF MatchIntDotZeros(s) THEN BeforeDot(s) ELSE s)

normalize_id_value(v) ==
    IF IsNa(v) THEN NaNV
    ELSE LET f == ToFloat(v)
             s == Strip(PyStr(v))
         IN  IF f.ok /\ f.finite
             THEN IF NearInt(f) THEN StrV(IntStr(f.neg, RoundAbs(f)))
                  ELSE IF MatchIntOptZeros(s) THEN StrV(BeforeDot(s))
                  ELSE StrV(s)
             ELSE IF MatchIntDotZeros(s) THEN StrV(BeforeDot(s))
             ELSE StrV(s)

\* make_id_key: the normalisation applied to every cell of a column
make_id_key(series) == [i \in 1..Len(series) |-> normalize_id_value(series[i])]

(***************************************************************************)
(* Strings and cells the studies of the pure functions draw from.          *)
(***************************************************************************)
RECURSIVE StringsUpTo(_, _)
StringsUpTo(alphabet, n) ==
    IF n = 0 THEN {<<>>}
    ELSE LET shorter == StringsUpTo(alphabet, n - 1)
         IN  shorter \cup {Append(s, c) : s \in {t \in shorter : Len(t) = n - 1},
                                          c \in alphabet}

NameAlphabet == {"a", "B", "&", "-", "!", " "}

IdAlphabet == {"0", "1", "5", ".", "-", "a", " "}

IdProbes ==
    {NoneV, NaNV}
    \cup {IntV(n) : n \in -2..12}
    \cup {FloatV(neg, w, fr) : neg \in BOOLEAN, w \in {0, 1, 12},
                               fr \in {<<>>, <<5>>, <<2, 5>>, <<0, 0, 0, 0, 0, 0, 0, 0, 0, 1>>,
                                       <<9, 9, 9, 9, 9, 9, 9, 9, 9, 9>>}}
    \cup {StrV(s) : s \in StringsUpTo(IdAlphabet, MaxIdLen)}

(***************************************************************************)
(* difflib.get_close_matches                                               *)
(***************************************************************************)
Ascii == <<"\t", "\n", "\r", " ", "!", "&", "-", ".", "0", "1", "2", "3", "4", "5",
           "6", "7", "8", "9", "A", "B", "C", "H", "I", "N", "_", "a", "b", "c", "d",
           "e", "f", "h", "i", "k", "l", "m", "n", "o", "p", "q", "r", "s", "t", "u",
           "x", "y">>

CharRank(c) == CHOOSE i \in 1..Len(Ascii) : Ascii[i] = c

\* a < b for two str
RECURSIVE StrLess(_, _)
StrLess(a, b) ==
    IF b = <<>> THEN FALSE
    ELSE IF a = <<>> THEN TRUE
    ELSE IF Head(a) # Head(b) THEN CharRank(Head(a)) < CharRank(Head(b))
    ELSE StrLess(Tail(a), Tail(b))

\* SequenceMatcher.find_longest_match: <<i, j, k>> with a[i..i+k-1] = b[j..j+k-1],
\* k largest, then i smallest, then j smallest; k = 0 when nothing matches
LongestMatch(a, b) ==
    LET blocks == {t \in (1..Len(a)) \X (1..Len(b)) \X (1..Len(a)) :
                      /\ t[1] + t[3] - 1 <= Len(a)
                      /\ t[2] + t[3] - 1 <= Len(b)
                      /\ \A d \in 0..(t[3] - 1) : a[t[1] + d] = b[t[2] + d]}
    IN  IF blocks = {} THEN <<1, 1, 0>>
        ELSE CHOOSE t \in blocks :
                \A u \in blocks :
                    \/ u[3] < t[3]
                    \/ (u[3] = t[3] /\ u[1] > t[1])
                    \/ (u[3] = t[3] /\ u[1] = t[1] /\ u[2] >= t[2])

\* the number of matching characters SequenceMatcher.get_matching_blocks finds
RECURSIVE MatchingChars(_, _)
MatchingChars(a, b) ==
    IF a = <<>> \/ b = <<>> THEN 0
    ELSE LET t == LongestMatch(a, b)
         IN  IF t[3] = 0 THEN 0
             ELSE t[3]
                  + MatchingChars(SubSeq(a, 1, t[1] - 1), SubSeq(b, 1, t[2] - 1))
                  + MatchingChars(SubSeq(a, t[1] + t[3], Len(a)),
                                  SubSeq(b, t[2] + t[3], Len(b)))

\* SequenceMatcher(None, a, b).ratio() >= percent / 100
RatioAtLeast(a, b, percent) ==
    IF Len(a) + Len(b) = 0 THEN TRUE
    ELSE 200 * MatchingChars(a, b) >= percent * (Len(a) + Len(b))

\* ratio(a, word) > ratio(b, word)
RatioGreater(a, b, word) ==
    MatchingChars(a, word) * (Len(b) + Len(word))
        > MatchingChars(b, word) * (Len(a) + Len(word))

\* difflib.get_close_matches(word, possibilities, n=1, cutoff=percent/100):
\* the candidates that clear the cutoff, the best of them first (the highest
\* ratio, and among equal ratios the greatest string); <<>> when there is none
get_close_matches(word, possibilities, percent) ==
    LET ok == {i \in 1..Len(possibilities) : RatioAtLeast(possibilities[i], word, percent)}
    IN  IF ok = {} THEN <<>>
        ELSE LET best == CHOOSE i \in ok :
                            \A j \in ok :
                                LET x == possibilities[i]
                                    y == possibilities[j]
                                IN  \/ RatioGreater(x, y, word)
                                    \/ (~RatioGreater(y, x, word) /\ ~StrLess(x, y))
             IN  <<possibilities[best]>>

(***************************************************************************)
(* Tables: a sequence of column names and a sequence of rows, each row a   *)
(* sequence of cells aligned with the columns.                             *)
(***************************************************************************)
NoName == <<>>    \* an option that was not given (None)

HasCol(df, c) == \E i \in 1..Len(df.cols) : df.cols[i] = c

ColIndex(df, c) ==
    CHOOSE i \in 1..Len(df.cols) :
        df.cols[i] = c /\ \A j \in 1..(i - 1) : df.cols[j] # c

\* df[c]
Column(df, c) == [r \in 1..Len(df.rows) |-> df.rows[r][ColIndex(df, c)]]

\* df.rename(columns={old: new})
Rename(df, old, new) ==
    [df EXCEPT !.cols = [i \in 1..Len(df.cols) |-> IF df.cols[i] = old THEN new
                                                    ELSE df.cols[i]]]

\* df[c] = series
SetColumn(df, c, series) ==
    IF HasCol(df, c)
    THEN [df EXCEPT !.rows = [r \in 1..Len(df.rows) |->
                                 [df.rows[r] EXCEPT ![ColIndex(df, c)] = series[r]]]]
    ELSE [cols |-> Append(df.cols, c),
          rows |-> [r \in 1..Len(df.rows) |-> Append(df.rows[r], series[r])]]

\* df[[c1, c2, ...]]
Project(df, cs) ==
    [cols |-> cs,
     rows |-> [r \in 1..Len(df.rows) |->
                  [i \in 1..Len(cs) |-> df.rows[r][ColIndex(df, cs[i])]]]]

\* the dtype pandas infers for a column that was read from a file: numeric
\* when the column has rows and they are all numbers or missing
IsNumericCol(df, c) ==
    /\ df.rows # <<>>
    /\ \A r \in 1..Len(df.rows) : df.rows[r][ColIndex(df, c)].k \in {"int", "float", "nan"}

RECURSIVE ConcatAll(_)
ConcatAll(ss) == IF ss = <<>> THEN <<>> ELSE Head(ss) \o ConcatAll(Tail(ss))

\* the members of a set of numbers, in ascending order
RECURSIVE Ascending(_)
Ascending(S) ==
    IF S = {} THEN <<>>
    ELSE LET m == CHOOSE x \in S : \A y \in S : x <= y
         IN  <<m>> \o Ascending(S \ {m})

(***************************************************************************)
(* Column names the program fixes.                                         *)
(***************************************************************************)
TaskSubmitId == <<"t", "a", "s", "k", "_", "s", "u", "b", "m", "i", "t", "_", "i", "d">>

HumanLabel == <<"h", "u", "m", "a", "n", "_", "l", "a", "b", "e", "l">>

ConstructCanon == <<"_", "c", "o", "n", "s", "t", "r", "u", "c", "t", "_", "c", "a", "n", "o", "n">>

IdKey == <<"_", "i", "d", "_", "k", "e", "y">>

GptPred == <<"g", "p", "t", "_", "p", "r", "e", "d">>

CONSTRUCT_CUTOFF == 80   \* cutoff=0.8 of the construct column match

CODEBOOK_CUTOFF == 72    \* cutoff=0.72 of the codebook match

(***************************************************************************)
(* coerce_raw_columns                                                      *)
(***************************************************************************)
\* avg_len(df[c]): the lengths of str(cell) over the cells that are not
\* missing, as sum and count; the mean of no cell at all is NaN (cnt = 0)
RECURSIVE SumLen(_)
SumLen(cells) == IF cells = <<>> THEN 0 ELSE Len(PyStr(Head(cells))) + SumLen(Tail(cells))

avg_len(df, c) ==
    LET present(v) == ~IsNa(v)
        cells == SelectSeq(Column(df, c), present)
    IN  [sum |-> SumLen(cells), cnt |-> Len(cells)]

\* a > b for two means; a comparison with NaN is false
MeanGreater(a, b) == a.cnt > 0 /\ b.cnt > 0 /\ a.sum * b.cnt > b.sum * a.cnt

\* max(obj_cols, key=avg_len): the first column no later column beats
RECURSIVE MaxAvgLen(_, _, _)
MaxAvgLen(df, cs, best) ==
    IF cs = <<>> THEN best
    ELSE MaxAvgLen(df, Tail(cs),
                   IF MeanGreater(avg_len(df, Head(cs)), avg_len(df, best))
                   THEN Head(cs) ELSE best)

\* "Ensure TEXT present"
coerce_text(df, text_col) ==
    LET isObject(c) == ~IsNumericCol(df, c)
        obj_cols == SelectSeq(df.cols, isObject)
    IN  IF HasCol(df, text_col) THEN df
        ELSE IF obj_cols # <<>>
        THEN Rename(df, MaxAvgLen(df, Tail(obj_cols), Head(obj_cols)), text_col)
        ELSE Rename(df, df.cols[Len(df.cols)], text_col)

\* "If construct column is missing but a close name exists, adopt it"; cols are
\* the column names the table had on entry
coerce_construct(df, cols, construct_col) ==
    LET match == get_close_matches(construct_col, cols, CONSTRUCT_CUTOFF)
    IN  IF ~HasCol(df, construct_col) /\ match # <<>>
        THEN Rename(df, match[1], construct_col)
        ELSE df

\* "Ensure ID if requested"; df[c] raises KeyError for a name of cols that an
\* earlier rule renamed
coerce_id(df, cols, id_col) ==
    LET isNumber(c) == IsNumericCol(df, c)
        num_cols == SelectSeq(cols, isNumber)
    IN  IF id_col = NoName \/ HasCol(df, id_col) THEN [ok |-> TRUE, df |-> df]
        ELSE IF \E i \in 1..Len(cols) : ~HasCol(df, cols[i]) THEN [ok |-> FALSE, df |-> df]
        ELSE IF num_cols # <<>> THEN [ok |-> TRUE, df |-> Rename(df, num_cols[1], id_col)]
        ELSE [ok |-> TRUE, df |-> Rename(df, cols[1], id_col)]

\* mutation: the two-column rule looks for the identifier column, not for the
\* text column
coerce_raw_columns_id_absent(df, id_col, text_col, construct_col) ==
    LET cols == df.cols
    IN  IF Len(cols) = 2 /\ id_col # NoName /\ ~HasCol(df, id_col)
        THEN [ok |-> TRUE, df |-> [df EXCEPT !.cols = <<id_col, text_col>>]]
        ELSE IF cols = <<>> THEN [ok |-> FALSE, df |-> df]
        ELSE coerce_id(coerce_construct(coerce_text(df, text_col), cols, construct_col),
                       cols, id_col)

\* ok = FALSE: the function raised
coerce_raw_columns(df, id_col, text_col, construct_col) ==
    LET cols == df.cols
    IN  IF Len(cols) = 2 /\ id_col # NoName /\ ~HasCol(df, text_col)
        THEN [ok |-> TRUE, df |-> [df EXCEPT !.cols = <<id_col, text_col>>]]
        ELSE IF cols = <<>> THEN [ok |-> FALSE, df |-> df]
        ELSE coerce_id(coerce_construct(coerce_text(df, text_col), cols, construct_col),
                       cols, id_col)

(***************************************************************************)
(* melt_coded_wide_to_long, get_construct_list_from_coded,                 *)
(* expand_raw_by_constructs                                                *)
(***************************************************************************)
\* pd.to_numeric(cell, errors="coerce")
ToNumeric(v) ==
    LET f == ToFloat(v)
    IN  IF v.k \in {"int", "float"} THEN v
        ELSE IF v.k = "str" /\ f.ok /\ f.finite THEN FloatV(f.neg, f.whole, f.frac)
        ELSE NaNV

\* "Choose id column(s) to carry through"
melt_id_var(coded, id_col) ==
    IF id_col # NoName /\ HasCol(coded, id_col) THEN id_col
    ELSE IF HasCol(coded, TaskSubmitId) THEN TaskSubmitId
    ELSE coded.cols[1]

\* mutation: the rows without a numeric label are dropped
melt_coded_wide_to_long_dropna(coded, id_col, construct_col_name) ==
    LET id_var == melt_id_var(coded, id_col)
        notId(c) == c # id_var
        value_vars == SelectSeq(coded.cols, notId)
        n == Len(coded.rows)
        labelled(row) == ~IsNa(row[3])
        block(c) == [r \in 1..n |->
                        <<coded.rows[r][ColIndex(coded, id_var)],
                          StrV(c),
                          ToNumeric(coded.rows[r][ColIndex(coded, c)]),
                          StrV(canonical(StrV(c)))>>]
    IN  [cols |-> <<id_var, construct_col_name, HumanLabel, ConstructCanon>>,
         rows |-> SelectSeq(ConcatAll([v \in 1..Len(value_vars) |-> block(value_vars[v])]),
                            labelled)]

\* the long table: the columns are the id column, construct_col_name,
\* human_label and _construct_canon; df.melt lays the rows out one value
\* column after the other
melt_coded_wide_to_long(coded, id_col, construct_col_name) ==
    LET id_var == melt_id_var(coded, id_col)
        notId(c) == c # id_var
        value_vars == SelectSeq(coded.cols, notId)
        n == Len(coded.rows)
        block(c) == [r \in 1..n |->
                        <<coded.rows[r][ColIndex(coded, id_var)],
                          StrV(c),
                          ToNumeric(coded.rows[r][ColIndex(coded, c)]),
                          StrV(canonical(StrV(c)))>>]
    IN  [cols |-> <<id_var, construct_col_name, HumanLabel, ConstructCanon>>,
         rows |-> ConcatAll([v \in 1..Len(value_vars) |-> block(value_vars[v])])]

get_construct_list_from_coded(coded, id_col) ==
    LET notIdCol(c) == c # id_col
        notTask(c) == c # TaskSubmitId
    IN  IF id_col # NoName /\ HasCol(coded, id_col) THEN SelectSeq(coded.cols, notIdCol)
        ELSE IF HasCol(coded, TaskSubmitId) THEN SelectSeq(coded.cols, notTask)
        ELSE coded.cols

\* mutation: raw row r is paired with construct r alone
expand_raw_by_constructs_aligned(raw, constructs, id_col, text_col, construct_col) ==
    LET base == Project(raw, <<id_col, text_col>>)
        n == IF Len(base.rows) < Len(constructs) THEN Len(base.rows) ELSE Len(constructs)
    IN  [cols |-> <<id_col, text_col, construct_col>>,
         rows |-> [r \in 1..n |-> Append(base.rows[r], StrV(constructs[r]))]]

\* the cross product, every raw row once per construct, raw row by raw row
expand_raw_by_constructs(raw, constructs, id_col, text_col, construct_col) ==
    LET base == Project(raw, <<id_col, text_col>>)
        copies(r) == [c \in 1..Len(constructs) |-> Append(base.rows[r], StrV(constructs[c]))]
    IN  [cols |-> <<id_col, text_col, construct_col>>,
         rows |-> ConcatAll([r \in 1..Len(base.rows) |-> copies(r)])]

(***************************************************************************)
(* State outside a run of main.                                            *)
(***************************************************************************)
EmptyTable == [cols |-> <<>>, rows |-> <<>>]

NoArgs == [id_col |-> NoName, text_col |-> NoName, construct_col |-> NoName,
           label_col |-> NoName]

NoOracle == [busy |-> FALSE, reply |-> <<>>, log |-> <<>>]

NoMetrics == [overall_kappa |-> <<>>, rows |-> <<>>]

NoRun ==
    /\ args = NoArgs
    /\ raw_df = EmptyTable
    /\ coded_df = EmptyTable
    /\ coded_long = EmptyTable
    /\ merged = EmptyTable
    /\ merge_keys = <<>>
    /\ warned = {}
    /\ preds = <<>>
    /\ oracle = NoOracle
    /\ artifacts = {}
    /\ metrics = NoMetrics
    /\ err = "none"

runVars == <<args, raw_df, coded_df, coded_long, merged, merge_keys, warned, preds,
             oracle, artifacts, metrics, err>>

(***************************************************************************)
(* Study of canonical: the function applied to a value, then to its own    *)
(* result.                                                                 *)
(***************************************************************************)
CanonicalProbes ==
    {NoneV, NaNV, IntV(7)} \cup {StrV(s) : s \in StringsUpTo(NameAlphabet, MaxLen)}

InitCanonical ==
    /\ pc = "canonical"
    /\ probe \in CanonicalProbes
    /\ result = <<>>
    /\ NoRun

CanonicalOnce ==
    /\ pc = "canonical"
    /\ result = <<>>
    /\ result' = <<canonical(probe)>>
    /\ UNCHANGED <<pc, probe, runVars>>

CanonicalTwice ==
    /\ pc = "canonical"
    /\ Len(result) = 1
    /\ result' = Append(result, canonical(StrV(result[1])))
    /\ UNCHANGED <<pc, probe, runVars>>

NextCanonical == CanonicalOnce \/ CanonicalTwice

SpecCanonical == InitCanonical /\ [][NextCanonical]_vars

\* C2: canonical is idempotent: applied to its own result it returns that
\* result unchanged, for every string
CanonicalIdempotent == Len(result) = 2 => result[2] = result[1]

(***************************************************************************)
(* Study of _normalize_id_value.                                           *)
(***************************************************************************)
InitNormalizeId ==
    /\ pc = "normalize_id"
    /\ probe \in IdProbes
    /\ result = <<>>
    /\ NoRun

NormalizeId ==
    /\ pc = "normalize_id"
    /\ result = <<>>
    /\ result' = <<normalize_id_value(probe)>>
    /\ UNCHANGED <<pc, probe, runVars>>

NextNormalizeId == NormalizeId

SpecNormalizeId == InitNormalizeId /\ [][NextNormalizeId]_vars

\* a str without the whitespace around it and without one leading sign
Unsigned(s) ==
    LET t == Strip(s) IN IF t # <<>> /\ Head(t) \in {"+", "-"} THEN Tail(t) ELSE t

Negative(s) == LET t == Strip(s) IN t # <<>> /\ Head(t) = "-"

\* the identifier is a decimal numeral: digits, at most one ".", a digit at least
IsNumeral(s) ==
    LET u == Unsigned(s)
    IN  /\ \E i \in 1..Len(u) : u[i] \in DigitSet
        /\ \A i \in 1..Len(u) : u[i] \in DigitSet \cup {"."}
        /\ Cardinality({i \in 1..Len(u) : u[i] = "."}) <= 1

\* the identifier stands for an integer: an int, a float without a fraction,
\* or a str of digits that may be followed by "." and zeros
RepresentsInteger(v) ==
    \/ v.k = "int"
    \/ v.k = "float" /\ \A i \in 1..Len(v.frac) : v.frac[i] = 0
    \/ v.k = "str" /\ MatchIntOptZeros(Unsigned(v.s))

\* the decimal string of that integer
IntegerText(v) ==
    LET neg == IF v.k = "str" THEN Negative(v.s) ELSE v.neg
        n == IF v.k = "str" THEN DigitsToNat(BeforeDot(Unsigned(v.s))) ELSE v.whole
    IN  (IF neg /\ n > 0 THEN <<"-">> ELSE <<>>) \o DecStr(n)

\* C5: every identifier that stands for an integer normalizes to the decimal
\* string of that integer, whatever its type; an identifier that is no
\* numeral normalizes to its trimmed string; a missing one to missing
IdNormalizationMergeInvariant ==
    result # <<>> =>
        /\ IsNa(probe) => result[1] = NaNV
        /\ RepresentsInteger(probe) => result[1] = StrV(IntegerText(probe))
        /\ (probe.k = "str" /\ ~IsNumeral(probe.s)) => result[1] = StrV(Strip(probe.s))

\* the float 12.0 and the strings "12.0" and "1.00" were normalized
IdNormalizationWitness ==
    /\ result # <<>>
    /\ probe = StrV(<<"1", ".", "0", "0">>)
    /\ result[1] = StrV(<<"1">>)

(***************************************************************************)
(* The codebook and the prompt.                                            *)
(***************************************************************************)
IfHeader == <<"I", "f", " ", "H", "e", "a", "d", "e", "r">>

IfBody == <<"I", "f", " ", "B", "o", "d", "y">>

Comment == <<"C", "o", "m", "m", "e", "n", "t">>

\* build_codebook().keys(): three of the fourteen constructs, in their order
CodebookKeys == <<IfHeader, IfBody, Comment>>

NoDefinition == <<>>   \* "No definition available for this construct. ..."

\* canon_map[can]: the last key whose canonical form is can, or <<>>
KeyOfCanon(can, keys) ==
    LET hits == {i \in 1..Len(keys) : canonical(StrV(keys[i])) = can}
    IN  IF hits = {} THEN <<>>
        ELSE keys[CHOOSE i \in hits : \A j \in hits : i >= j]

\* <<the column>> that corresponds to construct_value, or <<>> for None
map_construct_to_coded_column(construct_value, coded_construct_cols) ==
    LET can_target == canonical(StrV(construct_value))
        choices == [i \in 1..Len(coded_construct_cols) |->
                       canonical(StrV(coded_construct_cols[i]))]
        matches == get_close_matches(can_target, choices, CODEBOOK_CUTOFF)
    IN  IF can_target = <<>> THEN <<>>
        ELSE IF KeyOfCanon(can_target, coded_construct_cols) # <<>>
        THEN <<KeyOfCanon(can_target, coded_construct_cols)>>
        ELSE IF matches # <<>> THEN <<KeyOfCanon(matches[1], coded_construct_cols)>>
        ELSE <<>>

\* the prompt of a merged row: the construct as written, the key of the
\* definition that was found for it, and the snippet
PromptOf(df, r, a) ==
    LET construct_raw == PyStr(df.rows[r][ColIndex(df, a.construct_col)])
        snippet == PyStr(df.rows[r][ColIndex(df, a.text_col)])
        found == map_construct_to_coded_column(construct_raw, CodebookKeys)
        best_cb_key == IF found # <<>> /\ found[1] # <<>> THEN found[1] ELSE construct_raw
        known == \E i \in 1..Len(CodebookKeys) : CodebookKeys[i] = best_cb_key
    IN  [construct |-> construct_raw,
         definition |-> IF known THEN best_cb_key ELSE NoDefinition,
         snippet |-> snippet]

(***************************************************************************)
(* llm_predict_binary: the label read from the text of a reply             *)
(***************************************************************************)
\* re.search(r"\b([01])\b", txt): the positions of a 0 or 1 that stands alone
Standalone(txt) ==
    {i \in 1..Len(txt) :
        /\ txt[i] \in {"0", "1"}
        /\ (i = 1 \/ ~IsWord(txt[i - 1]))
        /\ (i = Len(txt) \/ ~IsWord(txt[i + 1]))}

\* re.search(r"^[\s\n\r]*([01])", txt): the 0 or 1 after the leading whitespace
Leading(txt) ==
    LET t == LStrip(txt) IN IF t # <<>> /\ Head(t) \in {"0", "1"} THEN <<Head(t)>> ELSE <<>>

\* the value llm_predict_binary returns for the reply text txt
ParseBinary(txt) ==
    IF Standalone(txt) # {}
    THEN DigitValue(txt[CHOOSE i \in Standalone(txt) : \A j \in Standalone(txt) : i <= j])
    ELSE IF Leading(txt) # <<>> THEN DigitValue(Leading(txt)[1])
    ELSE 0

(***************************************************************************)
(* The left join of main, and the scores.                                  *)
(***************************************************************************)
KeyOfRow(df, r, keys) == [i \in 1..Len(keys) |-> df.rows[r][ColIndex(df, keys[i])]]

\* pd.merge(left, right[keys + ["human_label"]], on=keys, how="left"): the rows
\* of left in their order, each once per row of right with equal keys (in the
\* order of right), or once with a missing label when there is none
left_merge(left, right, keys) ==
    LET hits(l) == Ascending({r \in 1..Len(right.rows) :
                                 KeyOfRow(right, r, keys) = KeyOfRow(left, l, keys)})
        label(r) == right.rows[r][ColIndex(right, HumanLabel)]
        joined(l) == IF hits(l) = <<>> THEN <<Append(left.rows[l], NaNV)>>
                     ELSE [m \in 1..Len(hits(l)) |-> Append(left.rows[l], label(hits(l)[m]))]
    IN  [cols |-> Append(left.cols, HumanLabel),
         rows |-> ConcatAll([l \in 1..Len(left.rows) |-> joined(l)])]

NoneM == [kind |-> "none", num |-> 0, den |-> 1]

NaNM == [kind |-> "nan", num |-> 0, den |-> 1]

NumM(num, den) == [kind |-> "num", num |-> num, den |-> den]

Count(seq, x) == Cardinality({i \in 1..Len(seq) : seq[i] = x})

\* sklearn's cohen_kappa_score on two vectors of 0/1 of equal length n > 0:
\* 1 - (observed disagreement / expected disagreement); with one class only on
\* both sides the quotient is 0/0 and the function returns NaN, it does not raise
cohen_kappa_score(y_true, y_pred) ==
    LET n == Len(y_true)
        d == Cardinality({i \in 1..n : y_true[i] # y_pred[i]})
        e == Count(y_true, 0) * Count(y_pred, 1) + Count(y_true, 1) * Count(y_pred, 0)
    IN  IF e = 0 THEN NaNM ELSE NumM(e - n * d, e)

\* precision_score(..., zero_division=0)
precision_score(y_true, y_pred) ==
    LET tp == Cardinality({i \in 1..Len(y_true) : y_true[i] = 1 /\ y_pred[i] = 1})
        pp == Cardinality({i \in 1..Len(y_true) : y_pred[i] = 1})
    IN  IF pp = 0 THEN NumM(0, 1) ELSE NumM(tp, pp)

\* recall_score(..., zero_division=0)
recall_score(y_true, y_pred) ==
    LET tp == Cardinality({i \in 1..Len(y_true) : y_true[i] = 1 /\ y_pred[i] = 1})
        ap == Cardinality({i \in 1..Len(y_true) : y_true[i] = 1})
    IN  IF ap = 0 THEN NumM(0, 1) ELSE NumM(tp, ap)

\* float(cohen_kappa_score(...)) inside try/except: NaN is a float and no
\* exception, so it is kept
kappa_guarded(y_true, y_pred) == cohen_kappa_score(y_true, y_pred)

\* .astype(int) of a label cell
AsInt(v) == IF v.neg THEN -v.whole ELSE v.whole

\* the rows of df (given by index) whose human label is present
Evaluable(df, rs) ==
    LET present(r) == ~IsNa(df.rows[r][ColIndex(df, HumanLabel)])
    IN  SelectSeq(rs, present)

TrueOf(df, rs) == [i \in 1..Len(rs) |-> AsInt(df.rows[rs[i]][ColIndex(df, HumanLabel)])]

PredOf(df, rs) == [i \in 1..Len(rs) |-> AsInt(df.rows[rs[i]][ColIndex(df, GptPred)])]

\* "Overall": None without any human label, else the float of the kappa
overall_kappa_of(df) ==
    LET rs == Evaluable(df, [r \in 1..Len(df.rows) |-> r])
    IN  IF rs = <<>> THEN NoneM ELSE cohen_kappa_score(TrueOf(df, rs), PredOf(df, rs))

\* one row of the per-construct table, for the group of rows g
per_construct_row(df, construct, g) ==
    LET rs == Evaluable(df, g)
        y_true == TrueOf(df, rs)
        y_pred == PredOf(df, rs)
    IN  IF rs = <<>>
        THEN [construct |-> construct, freq_in_data |-> NoneM, hum_gpt_kappa |-> NoneM,
              hum_gpt_precision |-> NoneM, hum_gpt_recall |-> NoneM, n_eval |-> 0]
        ELSE [construct |-> construct,
              freq_in_data |-> NumM(Count(y_true, 1), Len(rs)),
              hum_gpt_kappa |-> kappa_guarded(y_true, y_pred),
              hum_gpt_precision |-> precision_score(y_true, y_pred),
              hum_gpt_recall |-> recall_score(y_true, y_pred),
              n_eval |-> Len(rs)]

\* the names of a set of str in ascending order
RECURSIVE SortedNames(_)
SortedNames(S) ==
    IF S = {} THEN <<>>
    ELSE LET m == CHOOSE x \in S : \A y \in S : ~StrLess(y, x)
         IN  <<m>> \o SortedNames(S \ {m})

\* merged.groupby(construct_col), one row per construct, sorted by construct;
\* groupby drops the rows whose construct is missing
per_construct_table(df, construct_col) ==
    LET c == ColIndex(df, construct_col)
        names == SortedNames({PyStr(df.rows[r][c]) : r \in {q \in 1..Len(df.rows) :
                                                          ~IsNa(df.rows[q][c])}})
        group(nm) == Ascending({r \in 1..Len(df.rows) :
                                   ~IsNa(df.rows[r][c]) /\ PyStr(df.rows[r][c]) = nm})
    IN  [i \in 1..Len(names) |-> per_construct_row(df, names[i], group(names[i]))]

(***************************************************************************)
(* The inputs of a run of main.                                            *)
(***************************************************************************)
MaxRaw == 1      \* rows of the raw table

MaxCoded == 1    \* rows of the coded table

IdCol == <<"s", "i", "d">>

TextCol == <<"t", "e", "x", "t">>

ConstructCol == <<"c", "n">>

LabelCol == <<"l", "a", "b">>

ArgSets ==
    {[id_col |-> i, text_col |-> TextCol, construct_col |-> ConstructCol, label_col |-> l] :
        i \in {NoName, IdCol}, l \in {NoName, LabelCol}}

\* the column layouts of the raw sheet
RawLayouts ==
    {<<IdCol, TextCol>>,
     <<IdCol, TextCol, ConstructCol>>,
     <<TextCol, ConstructCol>>,
     <<<<"x">>, <<"y">>>>,
     <<IdCol, TextCol, <<"c", "n", "s">>>>,
     <<TextCol>>}

\* the column layouts of the coded file: wide ones, and long ones with a
\* single label column
CodedLayouts ==
    {<<IdCol, Comment, IfHeader>>,
     <<Comment, IfHeader>>,
     <<TaskSubmitId, Comment>>,
     <<IdCol, Comment, <<"c", "o", "m", "m", "e", "n", "t", "!">>>>,
     <<IdCol, ConstructCol, LabelCol>>,
     <<IdCol, LabelCol>>}

RawIdCells == {IntV(1), StrV(<<"2", ".", "0">>)}

\* the cells of the other columns are fixed by the row number
CodedIdSample == <<FloatV(FALSE, 1, <<>>), IntV(2), StrV(<<"1">>)>>

ConstructSample == <<StrV(Comment), StrV(<<"i", "f", "-", "h", "e", "a", "d", "e", "r">>),
                     StrV(<<"C", "o", "m", "e", "n", "t", "s">>)>>

TextSample == <<StrV(<<"p", "q">>), StrV(<<"r">>), NaNV>>

LabelSample == <<IntV(1), IntV(0), StrV(<<"x">>)>>

Nth(sample, i) == sample[((i - 1) % Len(sample)) + 1]

\* the cells row i of the raw sheet may hold in the column called name
RawCellsFor(name, i) ==
    IF name \in {IdCol, <<"x">>} THEN RawIdCells
    ELSE IF name \in {ConstructCol, <<"c", "n", "s">>} THEN {Nth(ConstructSample, i)}
    ELSE {Nth(TextSample, i)}

\* the cells row i of the coded file may hold in its j-th column, called name
CodedCellsFor(name, i, j) ==
    IF name \in {IdCol, TaskSubmitId} THEN {Nth(CodedIdSample, i)}
    ELSE IF name = ConstructCol THEN {Nth(ConstructSample, i)}
    ELSE IF i = 1 THEN {IntV(1)}
    ELSE {Nth(LabelSample, i + j)}

RawRows(cols, i) ==
    LET all == UNION {RawCellsFor(cols[j], i) : j \in 1..Len(cols)}
    IN  {row \in [1..Len(cols) -> all] : \A j \in 1..Len(cols) : row[j] \in RawCellsFor(cols[j], i)}

CodedRows(cols, i) ==
    LET all == UNION {CodedCellsFor(cols[j], i, j) : j \in 1..Len(cols)}
    IN  {row \in [1..Len(cols) -> all] :
            \A j \in 1..Len(cols) : row[j] \in CodedCellsFor(cols[j], i, j)}

RawTables ==
    UNION {{[cols |-> cols, rows |-> rows] :
               rows \in UNION {{f \in [1..k -> UNION {RawRows(cols, i) : i \in 1..k}] :
                                   \A i \in 1..k : f[i] \in RawRows(cols, i)} :
                               k \in 0..MaxRaw}} :
           cols \in RawLayouts}

CodedTables ==
    UNION {{[cols |-> cols, rows |-> rows] :
               rows \in UNION {{f \in [1..k -> UNION {CodedRows(cols, i) : i \in 1..k}] :
                                   \A i \in 1..k : f[i] \in CodedRows(cols, i)} :
                               k \in 0..MaxCoded}} :
           cols \in CodedLayouts}

\* the texts a reply of the oracle may carry (a reply without content is "")
OracleReplies == {<<"1">>, <<"0">>, <<"1", "0">>, <<"n", "o">>, <<>>}

(***************************************************************************)
(* main, step by step.                                                     *)
(***************************************************************************)
Init ==
    /\ pc = "start"
    /\ probe = NoneV
    /\ result = <<>>
    /\ args \in ArgSets
    /\ raw_df \in RawTables
    /\ coded_df \in CodedTables
    /\ coded_long = EmptyTable
    /\ merged = EmptyTable
    /\ merge_keys = <<>>
    /\ warned = {}
    /\ preds = <<>>
    /\ oracle = NoOracle
    /\ artifacts = {}
    /\ metrics = NoMetrics
    /\ err = "none"

\* "2) Make RAW robust": coerce, then the check of the text column
CoerceRaw ==
    /\ pc = "start"
    /\ LET c == coerce_raw_columns(raw_df, args.id_col, args.text_col, args.construct_col)
       IN  IF ~c.ok
           THEN /\ pc' = "failed"
                /\ err' = "KeyError: coerce_raw_columns"
                /\ UNCHANGED raw_df
           ELSE IF ~HasCol(c.df, args.text_col)
           THEN /\ pc' = "failed"
                /\ err' = "KeyError: text column"
                /\ raw_df' = c.df
           ELSE /\ pc' = "expand"
                /\ raw_df' = c.df
                /\ UNCHANGED err
    /\ UNCHANGED <<probe, result, args, coded_df, coded_long, merged, merge_keys, warned,
                   preds, oracle, artifacts, metrics>>

\* the column _construct_canon of a table that has the construct column
WithConstructCanon(df, construct_col) ==
    SetColumn(df, ConstructCanon,
              [r \in 1..Len(df.rows) |->
                  StrV(canonical(df.rows[r][ColIndex(df, construct_col)]))])

\* mutation: the missing construct column is reported but the run goes on
ExpandRaw_goes_on ==
    /\ pc = "expand"
    /\ IF HasCol(raw_df, args.construct_col)
       THEN /\ raw_df' = WithConstructCanon(raw_df, args.construct_col)
            /\ pc' = "prepare"
            /\ UNCHANGED err
       ELSE IF args.id_col = NoName \/ ~HasCol(raw_df, args.id_col)
       THEN /\ pc' = "predict"
            /\ err' = "KeyError: construct column"
            /\ UNCHANGED raw_df
       ELSE /\ raw_df' = WithConstructCanon(
                            expand_raw_by_constructs(
                                raw_df, get_construct_list_from_coded(coded_df, args.id_col),
                                args.id_col, args.text_col, args.construct_col),
                            args.construct_col)
            /\ pc' = "prepare"
            /\ UNCHANGED err
    /\ UNCHANGED <<probe, result, args, coded_df, coded_long, merged, merge_keys, warned,
                   preds, oracle, artifacts, metrics>>

\* "3) If RAW lacks construct names, expand by constructs found in CODED", and
\* the canonical construct of every raw row
ExpandRaw ==
    /\ pc = "expand"
    /\ IF HasCol(raw_df, args.construct_col)
       THEN /\ raw_df' = WithConstructCanon(raw_df, args.construct_col)
            /\ pc' = "prepare"
            /\ UNCHANGED err
       ELSE IF args.id_col = NoName \/ ~HasCol(raw_df, args.id_col)
       THEN /\ pc' = "failed"
            /\ err' = "KeyError: construct column"
            /\ UNCHANGED raw_df
       ELSE /\ raw_df' = WithConstructCanon(
                            expand_raw_by_constructs(
                                raw_df, get_construct_list_from_coded(coded_df, args.id_col),
                                args.id_col, args.text_col, args.construct_col),
                            args.construct_col)
            /\ pc' = "prepare"
            /\ UNCHANGED err
    /\ UNCHANGED <<probe, result, args, coded_df, coded_long, merged, merge_keys, warned,
                   preds, oracle, artifacts, metrics>>

\* "4) Prepare CODED labels"
PrepareCoded ==
    /\ pc = "prepare"
    /\ IF args.label_col # NoName /\ HasCol(coded_df, args.label_col)
       THEN LET named == IF HasCol(coded_df, HumanLabel) THEN coded_df
                         ELSE Rename(coded_df, args.label_col, HumanLabel)
            IN  IF HasCol(named, args.construct_col)
                THEN /\ coded_long' = WithConstructCanon(named, args.construct_col)
                     /\ UNCHANGED warned
                ELSE /\ coded_long' = named
                     /\ warned' = warned \cup {"labels will be merged by ID only"}
       ELSE /\ coded_long' = melt_coded_wide_to_long(coded_df, args.id_col, args.construct_col)
            /\ UNCHANGED warned
    /\ pc' = "plan"
    /\ UNCHANGED <<probe, result, args, raw_df, coded_df, merged, merge_keys, preds, oracle,
                   artifacts, metrics, err>>

WithIdKey(df, id_col) == SetColumn(df, IdKey, make_id_key(Column(df, id_col)))

\* mutation: the identifier on one side is taken to be enough
select_merge_keys_either(has_raw_id, has_coded_id) ==
    IF has_raw_id \/ has_coded_id THEN <<IdKey, ConstructCanon>> ELSE <<ConstructCanon>>

\* "6) Merge preference: (ID + construct), else construct-only"
select_merge_keys(has_raw_id, has_coded_id) ==
    IF has_raw_id /\ has_coded_id THEN <<IdKey, ConstructCanon>> ELSE <<ConstructCanon>>

\* "5) Build canonical ID keys" and "6) Merge preference"
PlanMerge ==
    /\ pc = "plan"
    /\ LET has_raw_id == args.id_col # NoName /\ HasCol(raw_df, args.id_col)
           has_coded_id == args.id_col # NoName /\ HasCol(coded_long, args.id_col)
           keyed == IF has_coded_id THEN WithIdKey(coded_long, args.id_col) ELSE coded_long
       IN  /\ raw_df' = IF has_raw_id THEN WithIdKey(raw_df, args.id_col) ELSE raw_df
           /\ coded_long' = IF ~HasCol(keyed, ConstructCanon) /\ HasCol(keyed, args.construct_col)
                            THEN WithConstructCanon(keyed, args.construct_col)
                            ELSE keyed
           /\ merge_keys' = select_merge_keys(has_raw_id, has_coded_id)
           /\ warned' = IF has_raw_id /\ has_coded_id THEN warned
                        ELSE warned \cup {"falling back to construct-only merge"}
    /\ pc' = "merge"
    /\ UNCHANGED <<probe, result, args, coded_df, merged, preds, oracle, artifacts, metrics,
                   err>>

\* the left join; coded_long[merge_keys + ["human_label"]] raises KeyError
\* for a column coded_long does not have
Merge ==
    /\ pc = "merge"
    /\ IF \E i \in 1..Len(merge_keys) : ~HasCol(coded_long, merge_keys[i])
       THEN /\ pc' = "failed"
            /\ err' = "KeyError: merge keys"
            /\ UNCHANGED merged
       ELSE /\ merged' = left_merge(raw_df, coded_long, merge_keys)
            /\ pc' = "predict"
            /\ UNCHANGED err
    /\ UNCHANGED <<probe, result, args, raw_df, coded_df, coded_long, merge_keys, warned,
                   preds, oracle, artifacts, metrics>>

\* "8) Iterate and predict": the request for the next row is sent
OracleCall ==
    /\ pc = "predict"
    /\ ~oracle.busy
    /\ Len(preds) < Len(merged.rows)
    /\ oracle' = [oracle EXCEPT !.busy = TRUE,
                                !.reply = <<>>,
                                !.log = Append(@, [row |-> Len(preds) + 1,
                                                   prompt |-> PromptOf(merged, Len(preds) + 1, args),
                                                   label |-> -1])]
    /\ UNCHANGED <<pc, probe, result, args, raw_df, coded_df, coded_long, merged, merge_keys,
                   warned, preds, artifacts, metrics, err>>

\* mutation: the label is put in front of the list
append_pred_front(ps, yhat) == <<yhat>> \o ps

\* preds.append(int(yhat))
append_pred(ps, yhat) == Append(ps, yhat)

\* the reply arrives and llm_predict_binary returns the label read from it
OracleReturn ==
    /\ pc = "predict"
    /\ oracle.busy
    /\ \E txt \in OracleReplies :
          /\ oracle' = [oracle EXCEPT !.busy = FALSE,
                                      !.reply = txt,
                                      !.log[Len(oracle.log)].label = ParseBinary(txt)]
          /\ preds' = append_pred(preds, ParseBinary(txt))
          /\ warned' = IF Standalone(txt) = {} /\ Leading(txt) = <<>>
                       THEN warned \cup {"Could not parse binary label"}
                       ELSE warned
    /\ UNCHANGED <<pc, probe, result, args, raw_df, coded_df, coded_long, merged, merge_keys,
                   artifacts, metrics, err>>

\* the request fails (timeout, network or API error): client.chat.completions.create
\* raises, nothing catches it, and main ends with the exception
OracleRaise ==
    /\ pc = "predict"
    /\ oracle.busy
    /\ oracle' = [oracle EXCEPT !.busy = FALSE]
    /\ pc' = "failed"
    /\ err' = "oracle call raised"
    /\ UNCHANGED <<probe, result, args, raw_df, coded_df, coded_long, merged, merge_keys,
                   warned, preds, artifacts, metrics>>

\* "9) Attach predictions to the merged frame and save a full copy"
SaveMerged ==
    /\ pc = "predict"
    /\ ~oracle.busy
    /\ Len(preds) = Len(merged.rows)
    /\ merged' = SetColumn(merged, GptPred, [r \in 1..Len(preds) |-> IntV(preds[r])])
    /\ oracle' = [oracle EXCEPT !.reply = <<>>]
    /\ artifacts' = artifacts \cup {"merged_with_preds.csv"}
    /\ pc' = "evaluate"
    /\ UNCHANGED <<probe, result, args, raw_df, coded_df, coded_long, merge_keys, warned,
                   preds, metrics, err>>

\* "10) Evaluate metrics"
Evaluate ==
    /\ pc = "evaluate"
    /\ metrics' = [overall_kappa |-> overall_kappa_of(merged),
                   rows |-> per_construct_table(merged, args.construct_col)]
    /\ pc' = "save"
    /\ UNCHANGED <<probe, result, args, raw_df, coded_df, coded_long, merged, merge_keys,
                   warned, preds, oracle, artifacts, err>>

\* "11) Save artifacts"
SaveArtifacts ==
    /\ pc = "save"
    /\ artifacts' = artifacts \cup {"preds.npy", "preds.csv", "per_construct_metrics.csv",
                                    "per_construct_metrics.json", "metrics.json"}
    /\ pc' = "done"
    /\ UNCHANGED <<probe, result, args, raw_df, coded_df, coded_long, merged, merge_keys,
                   warned, preds, oracle, metrics, err>>

Next ==
    \/ CoerceRaw
    \/ ExpandRaw
    \/ PrepareCoded
    \/ PlanMerge
    \/ Merge
    \/ OracleCall
    \/ OracleReturn
    \/ OracleRaise
    \/ SaveMerged
    \/ Evaluate
    \/ SaveArtifacts

Spec == Init /\ [][Next]_vars

(***************************************************************************)
(* Properties of a run of main.                                            *)
(***************************************************************************)
Merged == pc \in {"predict", "evaluate", "save", "done"} \/ err = "oracle call raised"

\* C1: every row of the (possibly expanded) raw table appears exactly once in
\* the merged table, so the two have the same number of rows, under either
\* set of merge keys
MergeCompleteness == Merged => Len(merged.rows) = Len(raw_df.rows)

\* C3: a failing oracle call never ends the run, and a reply without a
\* leading or standalone 0/1 gives the row the label 0
OracleNeverAborts ==
    /\ err # "oracle call raised"
    /\ (pc = "predict" /\ ~oracle.busy /\ preds # <<>>
        /\ Standalone(oracle.reply) = {} /\ Leading(oracle.reply) = <<>>)
           => preds[Len(preds)] = 0

Planned == merge_keys # <<>>

IdOnBothSides ==
    /\ args.id_col # NoName
    /\ HasCol(raw_df, args.id_col)
    /\ HasCol(coded_long, args.id_col)

DegenerateKappaAbsent ==
    pc \in {"save", "done"} =>
        /\ metrics.overall_kappa.kind # "nan"
        /\ \A i \in 1..Len(metrics.rows) : metrics.rows[i].hum_gpt_kappa.kind # "nan"

ConfigError == err \in {"KeyError: text column", "KeyError: construct column"}

\* C9: a run that ends with a configuration error has issued no oracle call
\* and has written no output file
ConfigErrorBeforeOracle == ConfigError => (oracle.log = <<>> /\ artifacts = {})

\* both configuration errors end runs
ConfigErrorWitness ==
    /\ pc = "failed"
    /\ err = "KeyError: construct column"
    /\ Len(raw_df.rows) > 0

\* C10: the oracle is called once per merged row, in row order and one call
\* at a time; the label of row i is the one read from the reply to the prompt
\* made of row i's construct and snippet; the output files are written only
\* after the last call has returned
SequentialSingleShot ==
    LET log == oracle.log
        cell(r, c) == PyStr(merged.rows[r][ColIndex(merged, c)])
    IN  /\ Len(log) <= Len(merged.rows)
        /\ \A i \in 1..Len(log) :
              /\ log[i].row = i
              /\ log[i].prompt.construct = cell(i, args.construct_col)
              /\ log[i].prompt.snippet = cell(i, args.text_col)
        /\ Len(preds) = Len(log) - (IF oracle.busy \/ err = "oracle call raised" THEN 1 ELSE 0)
        /\ \A i \in 1..Len(preds) : preds[i] = log[i].label
        /\ artifacts # {} =>
              /\ ~oracle.busy
              /\ Len(log) = Len(merged.rows)
              /\ \A i \in 1..Len(merged.rows) :
                    merged.rows[i][ColIndex(merged, GptPred)] = IntV(log[i].label)

\* a run over two merged rows ended with different labels for the two
SequentialWitness ==
    /\ pc = "done"
    /\ Len(merged.rows) = 2
    /\ preds = <<1, 0>>
    /\ merged.rows[1] # merged.rows[2]

(***************************************************************************)
(* melt_coded_wide_to_long on its own: wide tables of up to MaxMeltRows    *)
(* rows whose columns are an optional identifier column and up to          *)
(* MaxMeltCols further columns.                                            *)
(***************************************************************************)
MaxMeltRows == 2

MaxMeltCols == 2

Bang == <<"!">>

MeltNames == {Comment, IfHeader, Bang, <<"a", "-", "b">>}

\* the sequences of at most n distinct members of S
DistinctSeqs(S, n) ==
    UNION {{q \in [1..k -> S] : \A i, j \in 1..k : i # j => q[i] # q[j]} : k \in 0..n}

MeltHeaders ==
    {[cols |-> <<IdCol>> \o q, id_col |-> IdCol] : q \in DistinctSeqs(MeltNames, MaxMeltCols)}
    \cup {[cols |-> <<TaskSubmitId>> \o q, id_col |-> i] :
             q \in DistinctSeqs(MeltNames, MaxMeltCols), i \in {NoName, IdCol}}
    \cup {[cols |-> q, id_col |-> NoName] :
             q \in DistinctSeqs(MeltNames, MaxMeltCols) \ {<<>>}}

MeltCells == {IntV(1), StrV(<<"x">>)}

\* the cells of a row are all of one kind, a number or a text
MeltTables(h) ==
    {[coded |-> [cols |-> h.cols,
                 rows |-> [r \in 1..Len(kinds) |-> [c \in 1..Len(h.cols) |-> kinds[r]]]],
      id_col |-> h.id_col] :
        kinds \in UNION {[1..n -> MeltCells] : n \in 0..MaxMeltRows}}

MeltProbes == UNION {MeltTables(h) : h \in MeltHeaders}

InitMelt ==
    /\ pc = "melt"
    /\ probe \in MeltProbes
    /\ result = <<>>
    /\ NoRun

Melt ==
    /\ pc = "melt"
    /\ result = <<>>
    /\ result' = <<melt_coded_wide_to_long(probe.coded, probe.id_col, ConstructCol)>>
    /\ UNCHANGED <<pc, probe, runVars>>

NextMelt == Melt

SpecMelt == InitMelt /\ [][NextMelt]_vars

\* N entity rows and M columns other than the chosen identifier column give
\* N*M long rows
MeltCount ==
    Len(result[1].rows) = Len(probe.coded.rows) * (Len(probe.coded.cols) - 1)

HasAsciiWord(name) ==
    \E i \in 1..Len(name) : name[i] \in LowerLetters \cup UpperLetters \cup DigitSet

MaxExpandRows == 2

MaxConstructs == 2

ExpandNames == {Comment, IfHeader, <<"c", "o", "m", "m", "e", "n", "t", "!">>}

ExpandIdCells == {IntV(1), IntV(2), StrV(<<"1", ".", "0">>)}

ExpandHeaders == {<<IdCol, TextCol>>, <<IdCol, <<"x">>, TextCol>>}

ExpandRawRow(cols, id, r) ==
    [i \in 1..Len(cols) |->
        IF cols[i] = IdCol THEN id
        ELSE IF cols[i] = TextCol THEN StrV(<<"p", Digits[r + 1]>>)
        ELSE IntV(r)]

ExpandProbes ==
    {[raw |-> [cols |-> h, rows |-> [r \in 1..Len(ids) |-> ExpandRawRow(h, ids[r], r)]],
      constructs |-> q] :
        h \in ExpandHeaders,
        ids \in UNION {[1..n -> ExpandIdCells] : n \in 0..MaxExpandRows},
        q \in DistinctSeqs(ExpandNames, MaxConstructs)}

InitExpand ==
    /\ pc = "expand_raw"
    /\ probe \in ExpandProbes
    /\ result = <<>>
    /\ NoRun

Expand ==
    /\ pc = "expand_raw"
    /\ result = <<>>
    /\ result' = <<expand_raw_by_constructs(probe.raw, probe.constructs,
                                            IdCol, TextCol, ConstructCol)>>
    /\ UNCHANGED <<pc, probe, runVars>>

NextExpand == Expand

SpecExpand == InitExpand /\ [][NextExpand]_vars

ExpandCount == Len(result[1].rows) = Len(probe.raw.rows) * Len(probe.constructs)

\* the (identifier, construct) pairs of the rows of the expansion differ
ExpandPairsDiffer ==
    \A i, j \in 1..Len(result[1].rows) :
        i # j => <<result[1].rows[i][1], result[1].rows[i][3]>>
                     # <<result[1].rows[j][1], result[1].rows[j][3]>>

RawIdsDiffer ==
    \A i, j \in 1..Len(probe.raw.rows) :
        i # j => probe.raw.rows[i][ColIndex(probe.raw, IdCol)]
                     # probe.raw.rows[j][ColIndex(probe.raw, IdCol)]

\* C8 as stated: K raw rows against C constructs give K*C rows, no two with
\* the same (identifier, construct) pair
ExpandUniquePairs ==
    (pc = "expand_raw" /\ Len(result) = 1) => (ExpandCount /\ ExpandPairsDiffer)

\* C8: K raw rows against C distinct construct names give K*C rows, row
\* (k-1)*C + c carrying raw row k's identifier and text and construct c; no
\* two rows share an (identifier, construct) pair when the raw identifiers
\* are pairwise different
ExpandUniquePairsOfDistinctIds ==
    (pc = "expand_raw" /\ Len(result) = 1) =>
        LET C == Len(probe.constructs)
            cell(k, name) == probe.raw.rows[k][ColIndex(probe.raw, name)]
        IN  /\ ExpandCount
            /\ \A k \in 1..Len(probe.raw.rows) : \A c \in 1..C :
                  result[1].rows[(k - 1) * C + c]
                      = <<cell(k, IdCol), cell(k, TextCol), StrV(probe.constructs[c])>>
            /\ RawIdsDiffer => ExpandPairsDiffer

\* two raw rows with different identifiers against two constructs
ExpandWitness ==
    /\ pc = "expand_raw"
    /\ Len(result) = 1
    /\ Len(probe.raw.rows) = 2
    /\ Len(probe.constructs) = 2
    /\ RawIdsDiffer
    /\ Len(result[1].rows) = 4
    /\ ExpandPairsDiffer

(***************************************************************************)
(* coerce_raw_columns on its own: raw tables of up to MaxCoerceCols        *)
(* columns and up to MaxCoerceRows rows; a column holds numbers, short     *)
(* texts or long texts.                                                    *)
(***************************************************************************)
MaxCoerceCols == 2

MaxCoerceRows == 1

CoerceNames == {IdCol, TextCol, ConstructCol, <<"c", "n", "s">>, <<"x">>, <<"y">>}

CoerceKinds == {"number", "short", "long"}

CoerceCell(kind, r) ==
    IF kind = "number" THEN IntV(r)
    ELSE IF kind = "short" THEN StrV(<<"p">>)
    ELSE StrV(<<"p", "q", Digits[r + 1]>>)

CoerceTables(h) ==
    {[cols |-> h, rows |-> [r \in 1..n |-> [c \in 1..Len(h) |-> CoerceCell(kinds[c], r)]]] :
        kinds \in [1..Len(h) -> CoerceKinds], n \in 0..MaxCoerceRows}

CoerceProbes ==
    {[df |-> t, id_col |-> i] :
        t \in UNION {CoerceTables(h) : h \in DistinctSeqs(CoerceNames, MaxCoerceCols) \ {<<>>}},
        i \in {NoName, IdCol}}

InitCoerce ==
    /\ pc = "coerce"
    /\ probe \in CoerceProbes
    /\ result = <<>>
    /\ NoRun

Coerce ==
    /\ pc = "coerce"
    /\ result = <<>>
    /\ result' = <<coerce_raw_columns(probe.df, probe.id_col, TextCol, ConstructCol)>>
    /\ UNCHANGED <<pc, probe, runVars>>

NextCoerce == Coerce

SpecCoerce == InitCoerce /\ [][NextCoerce]_vars

Coerced == pc = "coerce" /\ Len(result) = 1

\* the table came back with its two columns named (identifier, text) in that
\* order, the cells untouched
RenamedPositionally ==
    /\ result[1].ok
    /\ result[1].df = [cols |-> <<probe.id_col, TextCol>>, rows |-> probe.df.rows]

CoercionKeepsText ==
    Coerced =>
        /\ HasCol(probe.df, TextCol) =>
              /\ result[1].ok
              /\ HasCol(result[1].df, TextCol)
              /\ Column(result[1].df, TextCol) = Column(probe.df, TextCol)
        /\ (~HasCol(probe.df, TextCol) /\ ~(Len(probe.df.cols) = 2 /\ probe.id_col # NoName)) =>
              /\ result[1].ok
              /\ HasCol(result[1].df, TextCol)
              /\ Column(result[1].df, TextCol)
                     = Column(coerce_text(probe.df, TextCol), TextCol)

(***************************************************************************)
(* get_construct_list_from_coded and melt_coded_wide_to_long on the same   *)
(* coded table and --id_col, as main calls them at lines 266 and 282.      *)
(***************************************************************************)
InitConstructs ==
    /\ pc = "constructs"
    /\ probe \in MeltProbes
    /\ result = <<>>
    /\ NoRun

ListConstructs ==
    /\ pc = "constructs"
    /\ result = <<>>
    /\ result' = <<get_construct_list_from_coded(probe.coded, probe.id_col)>>
    /\ UNCHANGED <<pc, probe, runVars>>

MeltConstructs ==
    /\ pc = "constructs"
    /\ Len(result) = 1
    /\ result' = Append(result,
                        melt_coded_wide_to_long(probe.coded, probe.id_col, ConstructCol))
    /\ UNCHANGED <<pc, probe, runVars>>

NextConstructs == ListConstructs \/ MeltConstructs

SpecConstructs == InitConstructs /\ [][NextConstructs]_vars

\* C13: on a coded table with rows, the names get_construct_list_from_coded
\* returns are the construct names of the long rows melt_coded_wide_to_long
\* emits, whether the identifier is the --id_col column, task_submit_id or
\* neither
ConstructSetsAgree ==
    (pc = "constructs" /\ Len(result) = 2 /\ probe.coded.rows # <<>>) =>
        {result[1][i] : i \in 1..Len(result[1])}
            = {result[2].rows[j][2].s : j \in 1..Len(result[2].rows)}

====
